---- MODULE Spec2Model ----
(***************************************************************************)
(* Model of the tag visitor of babel-plugin-transform-react-pug             *)
(* (src/src/utils/jsx.js): the translation of one pug tag node into a JSX  *)
(* value.  Strings are sequences of one-character strings so that the      *)
(* regular-expression tests, substr, charAt, toUpperCase and join of the   *)
(* source are computed, not assumed.                                       *)
(***************************************************************************)
EXTENDS Integers, Sequences, FiniteSets, TLC

\* ------------------------------------------------------------------ bounds
\* longest attribute list of an input node
MaxAttrs == 2
\* longest list of block children of an input node
MaxChildren == 1

\* ------------------------------------------------------------ string basics
Lower == <<"a","b","c","d","e","f","g","h","i","j","k","l","m",
           "n","o","p","q","r","s","t","u","v","w","x","y","z">>
Upper == <<"A","B","C","D","E","F","G","H","I","J","K","L","M",
           "N","O","P","Q","R","S","T","U","V","W","X","Y","Z">>
Digits == {"0","1","2","3","4","5","6","7","8","9"}

IsLower(c) == \E i \in 1..26 : Lower[i] = c
IsUpper(c) == \E i \in 1..26 : Upper[i] = c

\* String.prototype.toUpperCase on one character: letters are mapped, every
\* other character is returned unchanged.
toUpperCase(c) ==
  IF IsLower(c) THEN Upper[CHOOSE i \in 1..26 : Lower[i] = c] ELSE c

\* String.prototype.charAt(0): "" for the empty string.
charAt0(s) == IF Len(s) = 0 THEN "" ELSE s[1]

\* String.prototype.substr(n)
substr(s, n) == SubSeq(s, n + 1, Len(s))

\* RegExp.test for a pattern that is a plain character sequence (unanchored).
Contains(s, pat) ==
  \E i \in 1..(Len(s) - Len(pat) + 1) : SubSeq(s, i, i + Len(pat) - 1) = pat

RECURSIVE Join(_, _)
\* Array.prototype.join
Join(strs, sep) ==
  IF Len(strs) = 0 THEN <<>>
  ELSE IF Len(strs) = 1 THEN strs[1]
  ELSE strs[1] \o sep \o Join(Tail(strs), sep)

\* ------------------------------------------------------------- AST builders
Null == [type |-> "Null"]
NoErr == "none"
ErrUnescaped == "Unescaped attributes are not supported in react-pug"
ErrSpreadValue == "spread attributes must not have a value"
ErrAttributeBlocks == "Attribute blocks are not yet supported in react-pug"
ErrInvalidExpression == "INVALID_EXPRESSION"

stringLiteral(v) == [type |-> "StringLiteral", value |-> v]
identifier(n) == [type |-> "Identifier", name |-> n]
booleanLiteral == [type |-> "BooleanLiteral", value |-> <<"t","r","u","e">>]
opaqueExpression(src) == [type |-> "Expression", source |-> src]
arrayExpression(elems) == [type |-> "ArrayExpression", elements |-> elems]
memberExpression(obj, prop) ==
  [type |-> "MemberExpression", object |-> obj, property |-> prop]
callExpression(callee, args) ==
  [type |-> "CallExpression", callee |-> callee, arguments |-> args]
jSXIdentifier(n) == [type |-> "JSXIdentifier", name |-> n]
jSXMemberExpression(obj, prop) ==
  [type |-> "JSXMemberExpression", object |-> obj, property |-> prop]
jSXSpreadAttribute(e) == [type |-> "JSXSpreadAttribute", argument |-> e]
jSXAttribute(n, v) == [type |-> "JSXAttribute", name |-> n, value |-> v]
jSXExpressionContainer(e) == [type |-> "JSXExpressionContainer", expression |-> e]
jSXText(v) == [type |-> "JSXText", value |-> v]
jSXOpeningElement(tag, attrs, selfClosing) ==
  [type |-> "JSXOpeningElement", name |-> tag, attributes |-> attrs,
   selfClosing |-> selfClosing]
jSXClosingElement(tag) == [type |-> "JSXClosingElement", name |-> tag]
jSXElement(open, close, children, selfClosing) ==
  [type |-> "JSXElement", openingElement |-> open, closingElement |-> close,
   children |-> children, selfClosing |-> selfClosing]

isStringLiteral(e) == e.type = "StringLiteral"
isIdentifier(e) == e.type = "Identifier"
isJSXElement(e) == e.type = "JSXElement"
\* t.asStringLiteral / t.asJSXElement: the node itself or null
asStringLiteral(e) == IF isStringLiteral(e) THEN e ELSE Null
asJSXElement(e) == IF isJSXElement(e) THEN e ELSE Null

\* a || b for AST nodes
OrElse(a, b) == IF a # Null THEN a ELSE b

\* ------------------------------------------------------- expression parser
IdentStart(c) == IsLower(c) \/ IsUpper(c) \/ c \in {"_", "$"}
IdentChar(c) == IdentStart(c) \/ c \in Digits

\* parseExpression(src, context): the external expression parser.  The source
\* text 'true' is the boolean literal, a quoted text is a string literal with
\* the quotes removed, an identifier is an identifier, anything else is some
\* other expression.  It never yields null.
parseExpression(src) ==
  IF src = <<"t","r","u","e">> THEN booleanLiteral
  ELSE IF Len(src) >= 2 /\ src[1] = "'" /\ src[Len(src)] = "'"
    THEN stringLiteral(SubSeq(src, 2, Len(src) - 1))
  ELSE IF Len(src) > 0 /\ IdentStart(src[1])
          /\ \A i \in 1..Len(src) : IdentChar(src[i])
    THEN identifier(src)
  ELSE opaqueExpression(src)

\* ---------------------------------------------------- attribute translator
SpreadMarker == <<".", ".", ".">>
N_for == <<"f","o","r">>
N_htmlFor == <<"h","t","m","l","F","o","r">>
N_maxlength == <<"m","a","x","l","e","n","g","t","h">>
N_maxLength == <<"m","a","x","L","e","n","g","t","h">>
N_class == <<"c","l","a","s","s">>
N_className == <<"c","l","a","s","s","N","a","m","e">>
N_key == <<"k","e","y">>
N_join == <<"j","o","i","n">>

\* An attribute value of the template: boolean true, or source text.
ValTrue == [bool |-> TRUE, src |-> <<>>]
ValSrc(text) == [bool |-> FALSE, src |-> text]

\* val === true ? 'true' : val; also what RegExp.test makes of val
valSource(val) == IF val.bool THEN <<"t","r","u","e">> ELSE val.src

\* hasSpreadMarker with the pattern anchored at both ends: /^\.\.\.$/
hasSpreadMarkerAnchored(name) == name = SpreadMarker

\* /\.\.\./.test(name)
hasSpreadMarker(name) == Contains(name, SpreadMarker)

\* /(\<\>\&)/.test(val): the group holds the three characters in sequence
hasMarkupChars(val) == Contains(valSource(val), <<"<", ">", "&">>)

\* switch (name) of the attribute callback
renameAttribute(name) ==
  IF name = N_for THEN N_htmlFor
  ELSE IF name = N_maxlength THEN N_maxLength
  ELSE IF name = N_class THEN N_className
  ELSE name

AttrResult(err, attr, cls) == [err |-> err, attr |-> attr, cls |-> cls]

\* The callback of node.attrs.map: one attribute's JSX attribute (attr), or its
\* class expression pushed on `classes` (cls), or the error it throws.
mapAttribute(a) ==
  IF hasSpreadMarker(a.name) /\ a.val.bool
  THEN AttrResult(NoErr,
                  jSXSpreadAttribute(parseExpression(substr(a.name, 3))), Null)
  ELSE
    LET name == renameAttribute(a.name)
        expr == parseExpression(valSource(a.val))
        jsxValue == OrElse(asStringLiteral(expr),
                           OrElse(asJSXElement(expr), jSXExpressionContainer(expr)))
    IN IF ~a.mustEscape /\ (~isStringLiteral(expr) \/ hasMarkupChars(a.val))
         THEN AttrResult(ErrUnescaped, Null, Null)
       ELSE IF expr = Null THEN AttrResult(NoErr, Null, Null)
       ELSE IF name = N_className THEN AttrResult(NoErr, Null, expr)
       ELSE IF hasSpreadMarker(name) THEN AttrResult(ErrSpreadValue, Null, Null)
       ELSE AttrResult(NoErr, jSXAttribute(jSXIdentifier(name), jsxValue), Null)

\* classValue with join() called without a separator: a comma is used
classValueComma(classes) ==
  IF \A i \in 1..Len(classes) : isStringLiteral(classes[i])
  THEN stringLiteral(Join([i \in 1..Len(classes) |-> classes[i].value], <<",">>))
  ELSE jSXExpressionContainer(
         callExpression(
           memberExpression(arrayExpression(classes), identifier(N_join)),
           <<>>))

\* The value of the merged className attribute
classValue(classes) ==
  IF \A i \in 1..Len(classes) : isStringLiteral(classes[i])
  THEN stringLiteral(Join([i \in 1..Len(classes) |-> classes[i].value], <<" ">>))
  ELSE jSXExpressionContainer(
         callExpression(
           memberExpression(arrayExpression(classes), identifier(N_join)),
           <<stringLiteral(<<" ">>)>>))

Min(S) == CHOOSE x \in S : \A y \in S : x <= y

\* mergeClasses with unshift in place of push
mergeClassesFirst(attrs, classes) ==
  IF Len(classes) # 0
  THEN <<jSXAttribute(jSXIdentifier(N_className), classValue(classes))>> \o attrs
  ELSE attrs

\* if (classes.length) attrs.push(className = value)
mergeClasses(attrs, classes) ==
  IF Len(classes) # 0
  THEN Append(attrs, jSXAttribute(jSXIdentifier(N_className), classValue(classes)))
  ELSE attrs

\* getAttributes: the attributes are mapped in order and the first throw ends
\* it; the nulls are filtered out and the merged className is pushed last.
getAttributes(node, context) ==
  LET R == [i \in 1..Len(node.attrs) |-> mapAttribute(node.attrs[i])]
      thrown == {i \in 1..Len(node.attrs) : R[i].err # NoErr}
      HasAttr(r) == r.attr # Null
      HasCls(r) == r.cls # Null
      kept == SelectSeq(R, HasAttr)
      clsd == SelectSeq(R, HasCls)
      attrs == [i \in 1..Len(kept) |-> kept[i].attr]
      classes == [i \in 1..Len(clsd) |-> clsd[i].cls]
  IN IF thrown # {} THEN [err |-> R[Min(thrown)].err, attrs |-> <<>>]
     ELSE [err |-> NoErr, attrs |-> mergeClasses(attrs, classes)]

\* ------------------------------------------------------ translation context
\* The placeholder token: a reserved prefix followed by an index.
RefPrefix == <<"_","r","e","a","c","t","_","p","u","g","_",
               "r","e","p","l","a","c","e","_">>
Ref(d) == RefPrefix \o <<d>>

\* getInterpolationRefs(name): whether the name is a placeholder token
getInterpolationRefs(name) ==
  /\ Len(name) > Len(RefPrefix)
  /\ SubSeq(name, 1, Len(RefPrefix)) = RefPrefix
  /\ \A i \in (Len(RefPrefix) + 1)..Len(name) : name[i] \in Digits

\* The expressions the caller bound to the placeholders of one template: an
\* upper-case identifier, a lower-case identifier, identifiers led by '_' and
\* '$', a call, and a JSX element.
Interpolations ==
  (Ref("0") :> identifier(<<"F","o","o">>)) @@
  (Ref("1") :> identifier(<<"b","a","r">>)) @@
  (Ref("2") :> identifier(<<"_","x">>)) @@
  (Ref("3") :> identifier(<<"$","x">>)) @@
  (Ref("4") :> callExpression(identifier(<<"f">>), <<>>)) @@
  (Ref("5") :> jSXElement(jSXOpeningElement(jSXIdentifier(<<"b">>), <<>>, TRUE),
                           Null, <<>>, TRUE))

\* context.getInterpolationByRef(name)
getInterpolationByRef(context, name) ==
  IF name \in DOMAIN Interpolations THEN Interpolations[name] ELSE Null

\* context.noKey(fn): the context the children are visited in
noKey(context) == [key |-> FALSE]

\* The synthesized list key
KeyAttribute ==
  jSXAttribute(jSXIdentifier(N_key),
               jSXExpressionContainer(opaqueExpression(<<"k","e","y">>)))

\* context.key.handleAttributes(attrs): appends the synthesized key when the
\* context marks the position as key-requiring
handleAttributes(context, attrs) ==
  IF context.key THEN Append(attrs, KeyAttribute) ELSE attrs

\* ---------------------------------------------------------- element builder
\* buildJSXElement(tag, attrs, children) of lines 9-21
buildJSXElement(tag, attrs, children) ==
  LET noChildren == Len(children) = 0
      open == jSXOpeningElement(tag, attrs, noChildren)
      close == IF noChildren THEN Null ELSE jSXClosingElement(tag)
  IN jSXElement(open, close, children, noChildren)

buildJSXFragment(children) ==
  buildJSXElement(
    jSXMemberExpression(jSXIdentifier(<<"R","e","a","c","t">>),
                        jSXIdentifier(<<"F","r","a","g","m","e","n","t">>)),
    <<>>, children)

\* buildJSXElementByName taking an element with attributes as not self-closing
buildJSXElementByNameAttrs(name, attrs, children) ==
  LET tagName == jSXIdentifier(name)
      noChildren == Len(children) = 0 /\ Len(attrs) = 0
      open == jSXOpeningElement(tagName, attrs, noChildren)
      close == IF noChildren THEN Null ELSE jSXClosingElement(tagName)
  IN jSXElement(open, close, children, noChildren)

\* buildJSXElement(name, attrs, children) of lines 169-186
buildJSXElementByName(name, attrs, children) ==
  LET tagName == jSXIdentifier(name)
      noChildren == Len(children) = 0
      open == jSXOpeningElement(tagName, attrs, noChildren)
      close == IF noChildren THEN Null ELSE jSXClosingElement(tagName)
  IN jSXElement(open, close, children, noChildren)

\* ------------------------------------------------------------------ visitor
\* Results carry the error thrown (NoErr when none).  A step that uses an
\* earlier result more than once takes it as a parameter.
RECURSIVE visitJsx(_, _)
RECURSIVE visitJsxExpressions(_, _)

NoValue == [err |-> NoErr, value |-> Null]

\* getChildren, given the visited code payload and the visited block nodes:
\* the payload first, then the block's nodes; the first throw ends it.
concatChildren(node, code, rest) ==
  IF code.err # NoErr THEN [err |-> code.err, children |-> <<>>]
  ELSE IF rest.err # NoErr THEN [err |-> rest.err, children |-> <<>>]
  ELSE [err |-> NoErr,
        children |-> (IF node.code # Null THEN <<code.value>> ELSE <<>>)
                     \o rest.children]

\* getChildren: everything is visited under the no-key child context
getChildren(node, context) ==
  concatChildren(node,
                 IF node.code # Null THEN visitJsx(node.code, noKey(context))
                 ELSE NoValue,
                 visitJsxExpressions(node.block.nodes, noKey(context)))

\* attributesAfterChildren with the attribute-block check made last
attributesAfterChildrenLate(node, context, ch, at) ==
  IF ch.err # NoErr
  THEN [err |-> ch.err, attrs |-> <<>>, children |-> <<>>,
        steps |-> <<"getChildren">>]
  ELSE IF at.err # NoErr
  THEN [err |-> at.err, attrs |-> <<>>, children |-> <<>>,
        steps |-> <<"getChildren", "getAttributes">>]
  ELSE IF Len(node.attributeBlocks) # 0
  THEN [err |-> ErrAttributeBlocks, attrs |-> <<>>, children |-> <<>>,
        steps |-> <<"getChildren", "getAttributes", "handleAttributes">>]
  ELSE [err |-> NoErr, attrs |-> handleAttributes(context, at.attrs),
        children |-> ch.children,
        steps |-> <<"getChildren", "getAttributes", "handleAttributes">>]

\* getAttributesAndChildren after getChildren returned ch; at is what
\* getAttributes returns.  steps lists the calls made, in order.
attributesAfterChildren(node, context, ch, at) ==
  IF ch.err # NoErr
  THEN [err |-> ch.err, attrs |-> <<>>, children |-> <<>>,
        steps |-> <<"getChildren">>]
  ELSE IF Len(node.attributeBlocks) # 0
  THEN [err |-> ErrAttributeBlocks, attrs |-> <<>>, children |-> <<>>,
        steps |-> <<"getChildren">>]
  ELSE IF at.err # NoErr
  THEN [err |-> at.err, attrs |-> <<>>, children |-> <<>>,
        steps |-> <<"getChildren", "getAttributes">>]
  ELSE [err |-> NoErr, attrs |-> handleAttributes(context, at.attrs),
        children |-> ch.children,
        steps |-> <<"getChildren", "getAttributes", "handleAttributes">>]

getAttributesAndChildren(node, context) ==
  attributesAfterChildren(node, context, getChildren(node, context),
                          getAttributes(node, context))

\* isReactComponent of getInterpolationByContext
isReactComponent(interpolation) ==
  /\ isIdentifier(interpolation)
  /\ charAt0(interpolation.name) = toUpperCase(charAt0(interpolation.name))

\* getInterpolationByContext once the reference is looked up
interpolationOrComponent(interpolation, attrs, children) ==
  IF Len(attrs) # 0 \/ Len(children) # 0
  THEN IF isReactComponent(interpolation)
       THEN [err |-> NoErr,
             value |-> buildJSXElementByName(interpolation.name, attrs, children)]
       ELSE [err |-> ErrInvalidExpression, value |-> Null]
  ELSE [err |-> NoErr, value |-> interpolation]

\* getInterpolationByContext without its final return of the interpolation
getInterpolationByContextNoReturn(name, context, attrs, children) ==
  IF ~getInterpolationRefs(name) THEN NoValue
  ELSE IF Len(attrs) # 0 \/ Len(children) # 0
  THEN interpolationOrComponent(getInterpolationByRef(context, name),
                                attrs, children)
  ELSE NoValue

\* getInterpolationByContext: value is Null when the name is no placeholder
getInterpolationByContext(name, context, attrs, children) ==
  IF ~getInterpolationRefs(name) THEN NoValue
  ELSE interpolationOrComponent(getInterpolationByRef(context, name),
                                attrs, children)

Failure(err, steps) == [err |-> err, value |-> Null, steps |-> steps]

\* the end of TagVisitor.jsx, ip being what getInterpolationByContext returned
jsxResult(node, ac, ip) ==
  IF ip.err # NoErr THEN Failure(ip.err, ac.steps)
  ELSE [err |-> NoErr, steps |-> ac.steps,
        value |-> IF ip.value # Null
                  THEN OrElse(asJSXElement(ip.value),
                              jSXExpressionContainer(ip.value))
                  ELSE buildJSXElementByName(node.name, ac.attrs, ac.children)]

\* TagVisitor.jsx after getAttributesAndChildren returned ac
jsxAfterAttributes(node, context, ac) ==
  IF ac.err # NoErr THEN Failure(ac.err, ac.steps)
  ELSE jsxResult(node, ac,
         getInterpolationByContext(node.name, context, ac.attrs, ac.children))

\* TagVisitor.jsx
TagVisitor_jsx(node, context) ==
  jsxAfterAttributes(node, context, getAttributesAndChildren(node, context))

\* the end of TagVisitor.expression
expressionResult(node, ac, ip) ==
  IF ip.err # NoErr THEN Failure(ip.err, ac.steps)
  ELSE [err |-> NoErr, steps |-> ac.steps,
        value |-> IF ip.value # Null THEN ip.value
                  ELSE buildJSXElementByName(node.name, ac.attrs, ac.children)]

\* TagVisitor.expression after getAttributesAndChildren returned ac
expressionAfterAttributes(node, context, ac) ==
  IF ac.err # NoErr THEN Failure(ac.err, ac.steps)
  ELSE expressionResult(node, ac,
         getInterpolationByContext(node.name, context, ac.attrs, ac.children))

\* TagVisitor.expression
TagVisitor_expression(node, context) ==
  expressionAfterAttributes(node, context, getAttributesAndChildren(node, context))

\* a visitor's result as a child value
asChild(r) == [err |-> r.err, value |-> r.value]

\* visitJsx(node, context): dispatch on the node kind
visitJsx(node, context) ==
  IF node.type = "Text" THEN [err |-> NoErr, value |-> jSXText(node.val)]
  ELSE IF node.type = "Code"
    THEN [err |-> NoErr, value |-> jSXExpressionContainer(parseExpression(node.val))]
  ELSE asChild(TagVisitor_jsx(node, context))

\* the visited first node followed by the visited rest
consChild(first, rest) ==
  IF first.err # NoErr THEN [err |-> first.err, children |-> <<>>]
  ELSE IF rest.err # NoErr THEN rest
  ELSE [err |-> NoErr, children |-> <<first.value>> \o rest.children]

\* visitJsxExpressions(nodes, context): the nodes in document order
visitJsxExpressions(nodes, context) ==
  IF Len(nodes) = 0 THEN [err |-> NoErr, children |-> <<>>]
  ELSE consChild(visitJsx(Head(nodes), context),
                 visitJsxExpressions(Tail(nodes), context))

\* --------------------------------------------------------------- the inputs
SeqUpTo(S, n) == UNION {[1..k -> S] : k \in 0..n}

N_div == <<"d","i","v">>
N_span == <<"s","p","a","n">>
N_spread == SpreadMarker \o <<"p">>

TagNode(name, attrs, attributeBlocks, code, nodes) ==
  [type |-> "Tag", name |-> name, attrs |-> attrs,
   attributeBlocks |-> attributeBlocks, code |-> code, block |-> [nodes |-> nodes]]
TextNode(val) == [type |-> "Text", val |-> val]
CodeNode(val) == [type |-> "Code", val |-> val]

AttrNames == {N_for, N_htmlFor, N_maxlength, N_class, N_className, N_spread}
AttrVals ==
  { ValTrue, ValSrc(<<"'","a","'">>), ValSrc(<<"'","<","'">>),
    ValSrc(<<"'","<",">","&","'">>), ValSrc(<<"x">>) }
Attrs == [name : AttrNames, val : AttrVals, mustEscape : BOOLEAN]

\* the attributes of the nodes that also vary in name, children and blocks
TreeAttrs ==
  { [name |-> N_class, val |-> ValSrc(<<"'","a","'">>), mustEscape |-> TRUE],
    [name |-> N_for, val |-> ValSrc(<<"x">>), mustEscape |-> TRUE],
    [name |-> N_htmlFor, val |-> ValSrc(<<"x">>), mustEscape |-> FALSE],
    [name |-> N_spread, val |-> ValTrue, mustEscape |-> TRUE] }

NodeNames == {N_div} \cup DOMAIN Interpolations
AttributeBlocks == {<<>>, <<"attrs">>}
Codes == {Null, CodeNode(<<"x">>)}
ChildNodes ==
  { TextNode(<<"t">>),
    TagNode(N_span, <<>>, <<>>, Null, <<>>),
    TagNode(Ref("1"), <<>>, <<>>, Null, <<>>),
    TagNode(N_span, <<>>, <<"attrs">>, Null, <<>>) }

Contexts == [key : BOOLEAN]

\* --------------------------------------------------------------- the machine
VARIABLES node, context, pc, result, fragment
vars == <<node, context, pc, result, fragment>>

Pending == [err |-> NoErr, value |-> Null, steps |-> <<>>]

\* a plain element with any attribute list
InitAttrs ==
  \E attrs \in SeqUpTo(Attrs, MaxAttrs) :
    node = TagNode(N_div, attrs, <<>>, Null, <<>>)

\* any name, code payload, children and attribute blocks
InitTree ==
  \E name \in NodeNames, attrs \in SeqUpTo(TreeAttrs, MaxAttrs),
     blocks \in AttributeBlocks, code \in Codes,
     nodes \in SeqUpTo(ChildNodes, MaxChildren) :
    node = TagNode(name, attrs, blocks, code, nodes)

Init ==
  /\ InitAttrs \/ InitTree
  /\ context \in Contexts
  /\ pc = "start"
  /\ result = Pending
  /\ fragment = Null

CallJsx ==
  /\ pc = "start"
  /\ result' = TagVisitor_jsx(node, context)
  /\ pc' = "jsx"
  /\ UNCHANGED <<node, context, fragment>>

CallExpression ==
  /\ pc = "start"
  /\ result' = TagVisitor_expression(node, context)
  /\ pc' = "expression"
  /\ UNCHANGED <<node, context, fragment>>

\* the fragment builder applied to the node's translated children
fragmentOf(ch) == IF ch.err = NoErr THEN buildJSXFragment(ch.children) ELSE Null

CallFragment ==
  /\ pc = "start"
  /\ fragment' = fragmentOf(getChildren(node, context))
  /\ fragment' # Null
  /\ pc' = "fragment"
  /\ UNCHANGED <<node, context, result>>

Next == CallJsx \/ CallExpression \/ CallFragment

Spec == Init /\ [][Next]_vars

\* ============================================================ the properties
Done == pc \in {"jsx", "expression"}
Succeeded == Done /\ result.err = NoErr
\* getAttributes was called (the children were translated, no attribute block)
ReachedAttributes == Done /\ Len(result.steps) >= 2
\* getAttributesAndChildren returned
ReachedInterpolation == Done /\ Len(result.steps) = 3
ReturnedElement == Succeeded /\ isJSXElement(result.value)
FinalAttrs == result.value.openingElement.attributes

StartsWithMarker(name) == Len(name) > 3 /\ SubSeq(name, 1, 3) = SpreadMarker
IsNamed(at) == at.type = "JSXAttribute"
IsSpread(at) == at.type = "JSXSpreadAttribute"
ParsedValue(a) == parseExpression(valSource(a.val))
HasAnyMarkupChar(a) ==
  \E i \in 1..Len(valSource(a.val)) : valSource(a.val)[i] \in {"<", ">", "&"}

\* C1: an attribute without spread marker that is not marked mustEscape makes
\* getAttributes throw the unescaped-attribute error whenever its parsed value
\* is no string literal or its text holds one of '<', '>', '&'; when every
\* attribute is marked mustEscape that error is never thrown.  (Stated for the
\* first attribute, which is the first the code looks at.)
C1_UnescapedOnAnyMarkupChar ==
  (ReachedAttributes /\ Len(node.attrs) >= 1) =>
    /\ ( /\ ~hasSpreadMarker(node.attrs[1].name)
         /\ ~node.attrs[1].mustEscape
         /\ (~isStringLiteral(ParsedValue(node.attrs[1]))
             \/ HasAnyMarkupChar(node.attrs[1])) )
       => result.err = ErrUnescaped
    /\ (\A i \in 1..Len(node.attrs) : node.attrs[i].mustEscape)
       => result.err # ErrUnescaped

\* C2: in the attribute list of a returned element no two named attributes
\* have the same name, and no spread attribute carries a value.
C2_NamedAttributesUnique ==
  ReturnedElement =>
    /\ \A i, j \in 1..Len(FinalAttrs) :
         (i # j /\ IsNamed(FinalAttrs[i]) /\ IsNamed(FinalAttrs[j]))
           => FinalAttrs[i].name # FinalAttrs[j].name
    /\ \A i \in 1..Len(FinalAttrs) :
         IsSpread(FinalAttrs[i]) => "value" \notin DOMAIN FinalAttrs[i]

\* what C3 says of a placeholder node whose translated attributes are attrs and
\* children are children, ip being the bound expression
C3_Statement(ac, ip) ==
  (Len(ac.attrs) # 0 \/ Len(ac.children) # 0) =>
    IF isIdentifier(ip) /\ IsUpper(charAt0(ip.name))
    THEN /\ ReturnedElement
         /\ result.value.openingElement.name = jSXIdentifier(ip.name)
         /\ FinalAttrs = ac.attrs
         /\ result.value.children = ac.children
    ELSE result.err = ErrInvalidExpression /\ result.value = Null

\* C3: a placeholder node with a translated attribute or a child becomes an
\* element tagged with the bound identifier when that identifier starts with an
\* upper-case letter, and in every other case (no identifier, or an identifier
\* starting with a lower-case letter, '_' or '$') raises the
\* invalid-interpolation error and returns no node.  (Stated for the contexts
\* that inject no key, where the code of getInterpolationByContext alone
\* decides it.)
C3_ComponentIffUppercaseLetter ==
  (ReachedInterpolation /\ getInterpolationRefs(node.name) /\ ~context.key) =>
    C3_Statement(getAttributesAndChildren(node, context),
                 getInterpolationByRef(context, node.name))

\* C4: a bound placeholder node with no attrs, no code payload and no block
\* children (and no attribute block) never raises and yields the bound
\* expression itself (expression), or it as an element or in an expression
\* container (jsx), in every context, key-requiring ones included.
C4_BarePlaceholderVerbatim ==
  ( /\ Done
    /\ node.name \in DOMAIN Interpolations
    /\ node.attrs = <<>> /\ node.code = Null /\ node.block.nodes = <<>>
    /\ node.attributeBlocks = <<>> ) =>
    /\ result.err = NoErr
    /\ pc = "expression" => result.value = Interpolations[node.name]
    /\ pc = "jsx" =>
         result.value = IF isJSXElement(Interpolations[node.name])
                        THEN Interpolations[node.name]
                        ELSE jSXExpressionContainer(Interpolations[node.name])

\* the returned element was built from the node's own attributes and children
BuiltElement ==
  /\ ReturnedElement
  /\ ~(getInterpolationRefs(node.name)
       /\ result.value = getInterpolationByRef(context, node.name))

IsClassSource(a) == a.name \in {N_class, N_className}
IsOtherSource(a) == ~IsClassSource(a)
ClassSources == SelectSeq(node.attrs, IsClassSource)
OtherSources == SelectSeq(node.attrs, IsOtherSource)
IsClassNameAttr(at) == IsNamed(at) /\ at.name = jSXIdentifier(N_className)
ClassNameAt == {i \in 1..Len(FinalAttrs) : IsClassNameAttr(FinalAttrs[i])}

\* C5 as claimed: the list handed to the element builder holds a className
\* attribute iff the node has a class source, and then exactly one, as the last
\* entry of the list.
C5_ClassNameLast ==
  BuiltElement =>
    /\ (ClassNameAt # {}) <=> (Len(ClassSources) # 0)
    /\ (ClassNameAt # {}) => ClassNameAt = {Len(FinalAttrs)}

\* C5 (amended): the list handed to the element builder holds a className
\* attribute iff the node has a class source, and then exactly one; it is the
\* last entry unless the context is key-requiring, and then the synthesized
\* key, appended after getAttributes returned, is the only entry behind it.
C5_ClassNameLastBeforeKey ==
  BuiltElement =>
    /\ (ClassNameAt # {}) <=> (Len(ClassSources) # 0)
    /\ (ClassNameAt # {}) =>
         IF context.key
         THEN /\ ClassNameAt = {Len(FinalAttrs) - 1}
              /\ FinalAttrs[Len(FinalAttrs)] = KeyAttribute
         ELSE ClassNameAt = {Len(FinalAttrs)}

C5_Witness ==
  /\ BuiltElement /\ context.key
  /\ Len(FinalAttrs) = 3
  /\ ClassNameAt = {2}
  /\ IsSpread(FinalAttrs[1])

RECURSIVE SpaceJoined(_)
\* the strings with one space between neighbours
SpaceJoined(strs) ==
  IF Len(strs) = 0 THEN <<>>
  ELSE IF Len(strs) = 1 THEN Head(strs)
  ELSE Head(strs) \o <<" ">> \o SpaceJoined(Tail(strs))

ClassExprs == [i \in 1..Len(ClassSources) |-> ParsedValue(ClassSources[i])]
AllClassesLiteral == \A i \in 1..Len(ClassExprs) : isStringLiteral(ClassExprs[i])

\* C6: the merged className value is the string literal of the sources' values
\* joined with one space when every source is a string literal, and otherwise
\* an expression container holding [sources in order].join(' ').
C6_MergedClassValue ==
  (BuiltElement /\ Len(ClassSources) # 0) =>
    /\ ClassNameAt # {}
    /\ \A i \in ClassNameAt :
         IF AllClassesLiteral
         THEN /\ FinalAttrs[i].value.type = "StringLiteral"
              /\ FinalAttrs[i].value.value =
                   SpaceJoined([k \in 1..Len(ClassExprs) |-> ClassExprs[k].value])
         ELSE /\ FinalAttrs[i].value.type = "JSXExpressionContainer"
              /\ FinalAttrs[i].value.expression.type = "CallExpression"
              /\ FinalAttrs[i].value.expression.callee.object.elements = ClassExprs
              /\ FinalAttrs[i].value.expression.callee.property.name = N_join
              /\ FinalAttrs[i].value.expression.arguments
                   = <<[type |-> "StringLiteral", value |-> <<" ">>]>>

C6_Witness ==
  /\ BuiltElement
  /\ Len(ClassSources) = 2
  /\ AllClassesLiteral
  /\ ClassExprs[1] # ClassExprs[2]
  /\ \E i \in ClassNameAt : FinalAttrs[i].value.value = <<"a", " ", "<">>

SpreadWithValue(a) == StartsWithMarker(a.name) /\ ~a.val.bool
\* the attribute passes the escape check of the code
PassesEscapeCheck(a) ==
  \/ a.mustEscape
  \/ (isStringLiteral(ParsedValue(a))
      /\ ~Contains(valSource(a.val), <<"<", ">", "&">>))
\* the spread attributes of the result stand where the node has them among its
\* non-class attributes, and wrap the parsed name without its marker
SpreadsInPlace ==
  BuiltElement =>
    /\ Len(FinalAttrs) >= Len(OtherSources)
    /\ \A k \in 1..Len(OtherSources) :
         IF StartsWithMarker(OtherSources[k].name)
         THEN FinalAttrs[k] =
                [type |-> "JSXSpreadAttribute",
                 argument |-> parseExpression(
                   SubSeq(OtherSources[k].name, 4, Len(OtherSources[k].name)))]
         ELSE IsNamed(FinalAttrs[k])

RECURSIVE NoPlaceholderTag(_)
\* no element of the tree is tagged with a placeholder token
NoPlaceholderTag(v) ==
  IF v.type # "JSXElement" THEN TRUE
  ELSE /\ (v.openingElement.name.type = "JSXIdentifier"
           => ~getInterpolationRefs(v.openingElement.name.name))
       /\ \A i \in 1..Len(v.children) : NoPlaceholderTag(v.children[i])

\* what a placeholder node may become, ip being its bound expression
ResolvedAs(ip) ==
  \/ result.value = ip
  \/ result.value = [type |-> "JSXExpressionContainer", expression |-> ip]
  \/ /\ ip.type = "Identifier"
     /\ ReturnedElement
     /\ result.value.openingElement.name = [type |-> "JSXIdentifier", name |-> ip.name]

WellFormed(e) ==
  /\ e.selfClosing <=> (Len(e.children) = 0)
  /\ e.openingElement.selfClosing = e.selfClosing
  /\ (e.closingElement # Null) <=> ~e.selfClosing
  /\ (e.closingElement # Null) => e.closingElement.name = e.openingElement.name

RECURSIVE AllWellFormed(_)
AllWellFormed(v) ==
  IF v.type # "JSXElement" THEN TRUE
  ELSE WellFormed(v) /\ \A i \in 1..Len(v.children) : AllWellFormed(v.children[i])

\* C9: every element the builders made is self-closing iff it has no children,
\* and carries a closing marker with the opening tag iff it is not self-closing,
\* whatever its attributes.
C9_SelfClosingIffNoChildren ==
  AllWellFormed(result.value) /\ AllWellFormed(fragment)

C9_Witness ==
  /\ BuiltElement
  /\ Len(FinalAttrs) # 0
  /\ Len(result.value.children) = 0
  /\ result.value.selfClosing
  /\ result.value.closingElement = Null

\* C10: a node with attribute blocks never yields a node: unless one of its
\* children failed first, the attribute-block error is thrown, and getAttributes
\* and the key handling were not called.
C10_AttributeBlocksRejected ==
  (Done /\ Len(node.attributeBlocks) # 0) =>
    /\ result.value = Null
    /\ result.err # NoErr
    /\ getChildren(node, context).err = NoErr => result.err = ErrAttributeBlocks
    /\ getChildren(node, context).err # NoErr
         => result.err = getChildren(node, context).err
    /\ result.steps = <<"getChildren">>

C10_Witness ==
  /\ Done
  /\ Len(node.attributeBlocks) # 0
  /\ Len(node.attrs) # 0
  /\ Len(node.block.nodes) # 0
  /\ getInterpolationRefs(node.name)
  /\ context.key
  /\ result.err = ErrAttributeBlocks

====
